---- MODULE Spec2Model ----
(***************************************************************************)
(* Model of the Smart License API (src/main.py, src/init_db.py): the user  *)
(* table and login, the learner test bookings and their date queries, the  *)
(* security answers, the seeding of the security-question catalog, and the *)
(* user, instructor and learner profiles with the stations.                *)
(*                                                                         *)
(* The database is PostgreSQL at its default isolation level (READ         *)
(* COMMITTED): every statement of a handler sees the rows committed so     *)
(* far, and the flush done by db.commit() is one atomic step that the      *)
(* declared constraints (primary key, unique, not null, foreign key) can   *)
(* reject.  A handler that reads before it writes is therefore split at    *)
(* each statement, and concurrent requests interleave at these points.     *)
(***************************************************************************)
EXTENDS Integers, Sequences, FiniteSets, Bags, TLC

(* ---------- bounds ---------- *)
MaxInFlight == 2
MaxUsers == 2
MaxBookingId == 2
MaxAnswers == 3
NumSeeders == 2
MaxStationId == 2

(* ---------- input domains ---------- *)
Usernames == {"alice", "bob"}
Emails == {"a@x.org", "b@x.org"}
Passwords == {1, 2}
Salts == {0, 1}
Roles == {"learner", "instructor", "admin", "super_admin"}
RoleHints == {"learner", "instructor"}

VARIABLES
    users,              \* table users: sequence of rows, the id is the position
    userProfiles,       \* table user_profiles: user_id -> [id_number]
    learnerProfiles,    \* table learner_profiles: the set of its user_id
    instructorProfiles, \* table instructor_profile: user_id -> [inf_nr, station_id]
    stations,           \* table station: station_id -> [name, num_grounds]
    stationSeq,         \* last value of the sequence behind station_id
    bookings,           \* table learner_test_bookings: booking_id -> row
    bookingSeq,         \* last value of the sequence behind booking_id
    answers,            \* table user_security_answers: sequence of rows
    questions,          \* table security_questions: sequence of question texts
    seeding,            \* per seeding process: its position and its session
    inflight,           \* bag of the requests in progress between two statements
    last                \* the last response sent: [op, res]

profileVars == <<userProfiles, learnerProfiles, instructorProfiles>>
stationVars == <<stations, stationSeq>>
bookingVars == <<bookings, bookingSeq>>
vars ==
    <<users, profileVars, stationVars, bookingVars, answers, questions, seeding,
      inflight, last>>

\* what the handlers of one table leave alone
NotUsers == <<profileVars, stationVars, bookingVars, answers, questions, seeding>>
NotBookings == <<users, profileVars, stationVars, answers, questions, seeding>>
NotAnswers == <<users, profileVars, stationVars, bookingVars, questions, seeding>>
NotProfiles == <<users, answers, questions, seeding>>

\* SQL NULL, Python None
None == "None"

NoResponse == [op |-> "none", res |-> [status |-> 0, detail |-> ""]]

(* ---------- responses ---------- *)
HTTPException(status_code, detail) == [status |-> status_code, detail |-> detail]
Ok == [status |-> 200, detail |-> "OK"]
\* an exception no handler catches: FastAPI answers 500; detail names the exception
Unhandled(exc) == [status |-> 500, detail |-> exc]

(* ---------- UTILS: passlib bcrypt ---------- *)
Digest(secret, salt) == secret * 7 + salt * 3
get_password_hash(password, salt) == [salt |-> salt, digest |-> Digest(password, salt)]
verify_password(plain_password, hashed_password) ==
    Digest(plain_password, hashed_password.salt) = hashed_password.digest

(* ---------- table users ---------- *)
UserRow(r, salt) ==
    [username |-> r.username, password |-> get_password_hash(r.password, salt),
     email |-> r.email, role |-> r.role, is_active |-> r.is_active]

\* as UsersUniqueViolation, without the unique constraint on users.email
UsersUniqueViolation_no_email(tbl, row, self) ==
    \E i \in DOMAIN tbl : i # self /\ tbl[i].username = row.username

\* the unique constraints of users.username and users.email, for the row
\* written at position self (0 for an insert)
UsersUniqueViolation(tbl, row, self) ==
    \E i \in DOMAIN tbl :
        /\ i # self
        /\ (tbl[i].username = row.username \/ tbl[i].email = row.email)

\* db.query(User).filter(User.username == username).first()
UserByUsername(tbl, username) ==
    LET hits == {i \in DOMAIN tbl : tbl[i].username = username}
    IN  IF hits = {} THEN 0 ELSE CHOOSE i \in hits : \A j \in hits : i <= j

(* ---------- POST /login ---------- *)
\* as LoginResponse, with the active flag tested before the role
LoginResponse_active_first(tbl, r) ==
    LET id == UserByUsername(tbl, r.username) IN
    IF id = 0 \/ ~verify_password(r.password, tbl[id].password)
    THEN HTTPException(401, "Invalid credentials")
    ELSE IF ~tbl[id].is_active
    THEN HTTPException(403, "User inactive")
    ELSE IF tbl[id].role \notin {"instructor", "admin", "super_admin"}
    THEN HTTPException(403, "Only instructors, admins, and super admins can access this application")
    ELSE [status |-> 200, detail |-> "OK", userid |-> id,
          username |-> tbl[id].username, role |-> tbl[id].role,
          email |-> tbl[id].email]

\* as LoginResponse, with an answer of its own for a username that is not stored
LoginResponse_user_not_found(tbl, r) ==
    LET id == UserByUsername(tbl, r.username) IN
    IF id = 0
    THEN HTTPException(404, "User not found")
    ELSE IF ~verify_password(r.password, tbl[id].password)
    THEN HTTPException(401, "Invalid credentials")
    ELSE IF tbl[id].role \notin {"instructor", "admin", "super_admin"}
    THEN HTTPException(403, "Only instructors, admins, and super admins can access this application")
    ELSE IF ~tbl[id].is_active
    THEN HTTPException(403, "User inactive")
    ELSE [status |-> 200, detail |-> "OK", userid |-> id,
          username |-> tbl[id].username, role |-> tbl[id].role,
          email |-> tbl[id].email]

LoginResponse(tbl, r) ==
    LET id == UserByUsername(tbl, r.username) IN
    IF id = 0 \/ ~verify_password(r.password, tbl[id].password)
    THEN HTTPException(401, "Invalid credentials")
    ELSE IF tbl[id].role \notin {"instructor", "admin", "super_admin"}
    THEN HTTPException(403, "Only instructors, admins, and super admins can access this application")
    ELSE IF ~tbl[id].is_active
    THEN HTTPException(403, "User inactive")
    ELSE [status |-> 200, detail |-> "OK", userid |-> id,
          username |-> tbl[id].username, role |-> tbl[id].role,
          email |-> tbl[id].email]

login(r) ==
    /\ last' = [op |-> "login", res |-> LoginResponse(users, r), req |-> r]
    /\ UNCHANGED <<users, NotUsers, inflight>>

(* ---------- requests in progress ---------- *)
\* A request between two of its statements is a record of the bag inflight.
Begin(t) == inflight' = inflight (+) SetToBag({t})
Proceed(t, u) == inflight' = (inflight (-) SetToBag({t})) (+) SetToBag({u})
End(t) == inflight' = inflight (-) SetToBag({t})
CanBegin == BagCardinality(inflight) < MaxInFlight
InFlight(pc) == {t \in BagToSet(inflight) : t.pc = pc}

(* ---------- POST /users/ ---------- *)
\* as create_user_check, with an existence query on the username only
create_user_check_username_only(r, salt) ==
    /\ UNCHANGED NotUsers
    /\ CanBegin
    /\ IF \E i \in DOMAIN users : users[i].username = r.username
       THEN /\ last' = [op |-> "create_user",
                        res |-> HTTPException(400, "Username or email already exists")]
            /\ UNCHANGED <<users, inflight>>
       ELSE /\ Begin([pc |-> "create_user_commit", row |-> UserRow(r, salt)])
            /\ UNCHANGED <<users, last>>

\* line 215: the existence query; lines 218-222 build the row
create_user_check(r, salt) ==
    /\ UNCHANGED NotUsers
    /\ CanBegin
    /\ IF \E i \in DOMAIN users :
              users[i].username = r.username \/ users[i].email = r.email
       THEN /\ last' = [op |-> "create_user",
                        res |-> HTTPException(400, "Username or email already exists")]
            /\ UNCHANGED <<users, inflight>>
       ELSE /\ Begin([pc |-> "create_user_commit", row |-> UserRow(r, salt)])
            /\ UNCHANGED <<users, last>>

\* lines 223-224: db.add, db.commit
create_user_commit(t) ==
    /\ UNCHANGED NotUsers
    /\ t.pc = "create_user_commit"
    /\ IF UsersUniqueViolation(users, t.row, 0)
       THEN /\ last' = [op |-> "create_user", res |-> Unhandled("IntegrityError")]
            /\ UNCHANGED users
       ELSE /\ Len(users) < MaxUsers
            /\ users' = Append(users, t.row)
            /\ last' = [op |-> "create_user", res |-> Ok]
    /\ End(t)

(* ---------- PUT /users/id/{user_id} ---------- *)
\* line 238: load the row, or 404
update_user_load(user_id, r, salt) ==
    /\ UNCHANGED NotUsers
    /\ CanBegin
    /\ IF user_id \notin DOMAIN users
       THEN /\ last' = [op |-> "update_user", res |-> HTTPException(404, "User not found")]
            /\ UNCHANGED <<users, inflight>>
       ELSE /\ Begin([pc |-> "update_user_check", id |-> user_id,
                      loaded |-> users[user_id], row |-> UserRow(r, salt)])
            /\ UNCHANGED <<users, last>>

\* line 243: the existence query that excludes user_id
update_user_check(t) ==
    /\ UNCHANGED NotUsers
    /\ t.pc = "update_user_check"
    /\ IF \E i \in DOMAIN users :
              /\ (users[i].username = t.row.username \/ users[i].email = t.row.email)
              /\ i # t.id
       THEN /\ last' = [op |-> "update_user",
                        res |-> HTTPException(400, "Username or email already exists")]
            /\ End(t)
            /\ UNCHANGED users
       ELSE /\ Proceed(t, [t EXCEPT !.pc = "update_user_commit"])
            /\ UNCHANGED <<users, last>>

\* The UPDATE a flush emits for a loaded object sets the attributes whose
\* value differs from the loaded one; an attribute set to the value it was
\* loaded with is not written.
Flushed(loaded, new, cur) ==
    [f \in DOMAIN cur |-> IF new[f] # loaded[f] THEN new[f] ELSE cur[f]]

\* lines 248-255: setattr of every field, db.commit.  The password is hashed
\* with a fresh salt, so it always differs from the loaded hash and is written.
update_user_commit(t) ==
    /\ UNCHANGED NotUsers
    /\ t.pc = "update_user_commit"
    /\ LET row == [Flushed(t.loaded, t.row, users[t.id])
                       EXCEPT !.password = t.row.password]
       IN  IF UsersUniqueViolation(users, row, t.id)
           THEN /\ last' = [op |-> "update_user", res |-> Unhandled("IntegrityError")]
                /\ UNCHANGED users
           ELSE /\ users' = [users EXCEPT ![t.id] = row]
                /\ last' = [op |-> "update_user", res |-> Ok]
    /\ End(t)

(* ---------- PUT /users/{user_id}/is_active ---------- *)
\* the attributes of a loaded object that setattr gave another value
Changes(loaded, fields) ==
    [f \in {g \in DOMAIN fields : fields[g] # loaded[g]} |-> fields[f]]

\* the body parsed by the schema UserCreate: is_active defaults to True
UserCreate(body) ==
    IF "is_active" \in DOMAIN body THEN body ELSE body @@ [is_active |-> TRUE]

\* lines 329-333: load the row, or 404; setattr of is_active
update_user_is_active_load(user_id, is_active) ==
    /\ UNCHANGED NotUsers
    /\ CanBegin
    /\ IF user_id \notin DOMAIN users
       THEN /\ last' = [op |-> "update_user_is_active",
                        res |-> HTTPException(404, "User not found")]
            /\ UNCHANGED <<users, inflight>>
       ELSE /\ Begin([pc |-> "update_user_is_active_commit", id |-> user_id,
                      is_active |-> is_active,
                      changes |-> Changes(users[user_id], [is_active |-> is_active])])
            /\ UNCHANGED <<users, last>>

\* lines 334-338: db.commit flushes an UPDATE when the flag changed
update_user_is_active_commit(t) ==
    /\ UNCHANGED NotUsers
    /\ t.pc = "update_user_is_active_commit"
    /\ users' = IF DOMAIN t.changes = {} THEN users
                ELSE [users EXCEPT ![t.id].is_active = t.changes.is_active]
    /\ last' = [op |-> "update_user_is_active", res |-> Ok]
    /\ End(t)

(* ---------- table learner_test_bookings ---------- *)
BookingColumns ==
    {"learner_id", "instructor_id", "station_id", "test_date", "result", "license_code"}

\* the foreign keys of the row and its NOT NULL columns
BookingRowRejected(row) ==
    \/ row.learner_id \notin learnerProfiles
    \/ row.instructor_id \notin DOMAIN instructorProfiles
    \/ row.station_id \notin DOMAIN stations
    \/ row.test_date = None
    \/ row.result = None

\* as InsertedBooking, with the result of the request stored as it is given
InsertedBooking_no_default(fields) ==
    [learner_id |-> fields.learner_id,
     instructor_id |-> fields.instructor_id,
     station_id |-> fields.station_id,
     test_date |-> fields.test_date,
     result |-> IF "result" \in DOMAIN fields THEN fields.result ELSE "passed",
     license_code |-> None]

\* the row an INSERT stores for a new object: an attribute that is missing
\* or None is left to the default of its column
InsertedBooking(fields) ==
    LET given(f) == f \in DOMAIN fields /\ fields[f] # None
    IN  [learner_id |-> fields.learner_id,
         instructor_id |-> fields.instructor_id,
         station_id |-> fields.station_id,
         test_date |-> fields.test_date,
         result |-> IF given("result") THEN fields.result ELSE "pending",
         license_code |-> IF given("license_code") THEN fields.license_code ELSE None]

\* the flush of a loaded booking: no statement when nothing changed, else
\* an UPDATE of the changed columns of the row with the loaded booking_id
FlushBooking(tbl, id, changes) ==
    IF DOMAIN changes = {}
    THEN [exc |-> None, tbl |-> tbl]
    ELSE IF id \notin DOMAIN tbl
    THEN [exc |-> "StaleDataError", tbl |-> tbl]
    ELSE LET row == [f \in BookingColumns |->
                        IF f \in DOMAIN changes THEN changes[f] ELSE tbl[id][f]]
             newid == IF "booking_id" \in DOMAIN changes THEN changes.booking_id ELSE id
         IN  IF BookingRowRejected(row) \/ (newid # id /\ newid \in DOMAIN tbl)
             THEN [exc |-> "IntegrityError", tbl |-> tbl]
             ELSE [exc |-> None,
                   tbl |-> [i \in (DOMAIN tbl \ {id}) \cup {newid} |->
                               IF i = newid THEN row ELSE tbl[i]]]

\* the loaded object: the columns of the row and its primary key
LoadedBooking(tbl, id) == ("booking_id" :> id) @@ tbl[id]

BookingNotFound == HTTPException(404, "Booking not found")

(* ---------- POST /learner-test-bookings/ ---------- *)
\* fields is booking.dict(exclude_unset=True); a booking_id it holds is a number
create_test_booking(fields) ==
    /\ LET explicit == "booking_id" \in DOMAIN fields
           id == IF explicit THEN fields.booking_id ELSE bookingSeq + 1
           row == InsertedBooking(fields)
       IN  /\ id <= MaxBookingId
           /\ bookingSeq' = IF explicit THEN bookingSeq ELSE bookingSeq + 1
           /\ IF id \in DOMAIN bookings \/ BookingRowRejected(row)
              THEN /\ bookings' = bookings
                   /\ last' = [op |-> "create_test_booking",
                               res |-> Unhandled("IntegrityError")]
              ELSE /\ bookings' = (id :> row) @@ bookings
                   /\ last' = [op |-> "create_test_booking", res |-> Ok]
    /\ UNCHANGED <<NotBookings, inflight>>

(* ---------- PUT /learner-test-bookings/{booking_id}/result ---------- *)
\* as update_test_result_load, without the answer 404 for a missing booking
update_test_result_load_unchecked(booking_id, result) ==
    /\ CanBegin
    /\ Begin([pc |-> "update_test_result_commit", id |-> booking_id, result |-> result,
              changes |-> IF booking_id \in DOMAIN bookings
                          THEN Changes(LoadedBooking(bookings, booking_id),
                                       [result |-> result])
                          ELSE [result |-> result]])
    /\ UNCHANGED last
    /\ UNCHANGED <<NotBookings, bookingVars>>

\* lines 429-433: load the booking, or 404; set its result
update_test_result_load(booking_id, result) ==
    /\ CanBegin
    /\ IF booking_id \notin DOMAIN bookings
       THEN /\ last' = [op |-> "update_test_result", res |-> BookingNotFound]
            /\ UNCHANGED inflight
       ELSE /\ Begin([pc |-> "update_test_result_commit", id |-> booking_id,
                      result |-> result,
                      changes |-> Changes(LoadedBooking(bookings, booking_id),
                                          [result |-> result])])
            /\ UNCHANGED last
    /\ UNCHANGED <<NotBookings, bookingVars>>

\* lines 434-435: db.commit and the answer
update_test_result_commit(t) ==
    /\ t.pc = "update_test_result_commit"
    /\ LET f == FlushBooking(bookings, t.id, t.changes)
       IN  /\ bookings' = f.tbl
           /\ last' = [op |-> "update_test_result",
                       res |-> IF f.exc = None THEN Ok ELSE Unhandled(f.exc)]
    /\ End(t)
    /\ UNCHANGED <<NotBookings, bookingSeq>>

(* ---------- PUT /learner-test-bookings/{booking_id} ---------- *)
\* as update_test_booking_load, with booking.dict() in place of
\* booking.dict(exclude_unset=True): a field the request leaves out is set to
\* the default of the schema
update_test_booking_load_all_fields(booking_id, fields) ==
    /\ CanBegin
    /\ IF booking_id \notin DOMAIN bookings
       THEN /\ last' = [op |-> "update_test_booking", res |-> BookingNotFound]
            /\ UNCHANGED inflight
       ELSE /\ Begin([pc |-> "update_test_booking_commit", id |-> booking_id,
                      fields |-> fields,
                      changes |-> Changes(LoadedBooking(bookings, booking_id),
                                          fields @@ [result |-> "pending",
                                                     license_code |-> None])])
            /\ UNCHANGED last
    /\ UNCHANGED <<NotBookings, bookingVars>>

\* lines 511-515: load the booking, or 404; set the fields of the request
update_test_booking_load(booking_id, fields) ==
    /\ CanBegin
    /\ IF booking_id \notin DOMAIN bookings
       THEN /\ last' = [op |-> "update_test_booking", res |-> BookingNotFound]
            /\ UNCHANGED inflight
       ELSE /\ Begin([pc |-> "update_test_booking_commit", id |-> booking_id,
                      fields |-> fields,
                      changes |-> Changes(LoadedBooking(bookings, booking_id), fields)])
            /\ UNCHANGED last
    /\ UNCHANGED <<NotBookings, bookingVars>>

\* lines 516-517: db.commit and the answer
update_test_booking_commit(t) ==
    /\ t.pc = "update_test_booking_commit"
    /\ LET f == FlushBooking(bookings, t.id, t.changes)
       IN  /\ bookings' = f.tbl
           /\ last' = [op |-> "update_test_booking",
                       res |-> IF f.exc = None THEN Ok ELSE Unhandled(f.exc)]
    /\ End(t)
    /\ UNCHANGED <<NotBookings, bookingSeq>>

(* ---------- DELETE /learner-test-bookings/{booking_id} ---------- *)
\* lines 521-523: load the booking, or 404
delete_test_booking_load(booking_id) ==
    /\ CanBegin
    /\ IF booking_id \notin DOMAIN bookings
       THEN /\ last' = [op |-> "delete_test_booking", res |-> BookingNotFound]
            /\ UNCHANGED inflight
       ELSE /\ Begin([pc |-> "delete_test_booking_commit", id |-> booking_id])
            /\ UNCHANGED last
    /\ UNCHANGED <<NotBookings, bookingVars>>

\* lines 524-526: db.delete, db.commit.  A DELETE that matches no row any
\* more only raises a warning.
delete_test_booking_commit(t) ==
    /\ t.pc = "delete_test_booking_commit"
    /\ bookings' = [i \in DOMAIN bookings \ {t.id} |-> bookings[i]]
    /\ last' = [op |-> "delete_test_booking", res |-> Ok]
    /\ End(t)
    /\ UNCHANGED <<NotBookings, bookingSeq>>

(* ---------- GET /learner-test-bookings/... ---------- *)
\* The GET handlers are single queries that write nothing: each is the
\* operator that gives its response for a table.
\* the date PostgreSQL reads from the text of the path parameter
ParseDate(text) ==
    CASE text \in {"2024-05-01", "2024-5-1"} -> "2024-05-01"
      [] text \in {"2024-05-02", "2024-5-2"} -> "2024-05-02"
      [] OTHER -> None

get_test_booking_response(tbl, booking_id) ==
    IF booking_id \notin DOMAIN tbl
    THEN BookingNotFound
    ELSE [status |-> 200, detail |-> "OK", body |-> LoadedBooking(tbl, booking_id)]

\* bookings is a set of booking_id: the rows the query returns
get_pending_learners_response(tbl, date) ==
    IF ParseDate(date) = None
    THEN Unhandled("DataError")
    ELSE [status |-> 200, detail |-> "OK",
          bookings |-> {i \in DOMAIN tbl :
                          /\ tbl[i].test_date = ParseDate(date)
                          /\ tbl[i].result # None /\ tbl[i].result = "pending"}]

\* as get_completed_learners_response, with the passed bookings only
get_completed_learners_passed_only(tbl, date) ==
    IF ParseDate(date) = None
    THEN Unhandled("DataError")
    ELSE [status |-> 200, detail |-> "OK",
          bookings |-> {i \in DOMAIN tbl :
                          /\ tbl[i].test_date = ParseDate(date)
                          /\ tbl[i].result = "passed"}]

get_completed_learners_response(tbl, date) ==
    IF ParseDate(date) = None
    THEN Unhandled("DataError")
    ELSE [status |-> 200, detail |-> "OK",
          bookings |-> {i \in DOMAIN tbl :
                          /\ tbl[i].test_date = ParseDate(date)
                          /\ tbl[i].result # None /\ tbl[i].result # "pending"}]

\* as get_all_results_by_date_response, with the total taken over every date
get_all_results_by_date_total_of_all(tbl, date) ==
    IF ParseDate(date) = None
    THEN Unhandled("DataError")
    ELSE LET all_bookings == {i \in DOMAIN tbl : tbl[i].test_date = ParseDate(date)}
             results_summary ==
                 [status \in {"pending", "passed", "failed", "absent"} |->
                     {i \in all_bookings : tbl[i].result = status}]
         IN  [status |-> 200, detail |-> "OK",
              total_bookings |-> Cardinality(DOMAIN tbl),
              results |-> results_summary,
              summary |-> [status \in DOMAIN results_summary |->
                              Cardinality(results_summary[status])]]

get_all_results_by_date_response(tbl, date) ==
    IF ParseDate(date) = None
    THEN Unhandled("DataError")
    ELSE LET all_bookings == {i \in DOMAIN tbl : tbl[i].test_date = ParseDate(date)}
             results_summary ==
                 [status \in {"pending", "passed", "failed", "absent"} |->
                     {i \in all_bookings : tbl[i].result = status}]
         IN  [status |-> 200, detail |-> "OK",
              total_bookings |-> Cardinality(all_bookings),
              results |-> results_summary,
              summary |-> [status \in DOMAIN results_summary |->
                              Cardinality(results_summary[status])]]

(* ---------- POST /user-security-answers/ ---------- *)
\* as AnswersUniqueViolation, with the constraint left out of the table
AnswersUniqueViolation_none(tbl, row) == FALSE

\* UniqueConstraint("user_id", "question_id", name="unique_question_per_user")
AnswersUniqueViolation(tbl, row) ==
    \E i \in DOMAIN tbl :
        tbl[i].user_id = row.user_id /\ tbl[i].question_id = row.question_id

\* lines 541-546: the answer is hashed and the row added to the session
create_security_answer_add(r, salt) ==
    /\ UNCHANGED <<NotAnswers, answers, last>>
    /\ CanBegin
    /\ Begin([pc |-> "create_security_answer_commit",
              db_answer |-> [user_id |-> r.user_id,
                             question_id |-> r.question_id,
                             answer_hash |-> get_password_hash(r.answer, salt)]])

\* lines 547-548: db.commit sends the INSERT; the unique constraint and the
\* two foreign keys of the table decide
create_security_answer_commit(t) ==
    /\ UNCHANGED NotAnswers
    /\ End(t)
    /\ IF AnswersUniqueViolation(answers, t.db_answer)
       THEN /\ last' = [op |-> "create_security_answer",
                        res |-> Unhandled("IntegrityError unique_question_per_user")]
            /\ UNCHANGED answers
       ELSE IF \/ t.db_answer.user_id \notin DOMAIN users
               \/ t.db_answer.question_id \notin DOMAIN questions
       THEN /\ last' = [op |-> "create_security_answer",
                        res |-> Unhandled("IntegrityError foreign key")]
            /\ UNCHANGED answers
       ELSE /\ Len(answers) < MaxAnswers
            /\ answers' = Append(answers, t.db_answer)
            /\ last' = [op |-> "create_security_answer", res |-> Ok]

(* ---------- seeding: startup of main.py, init_db.py ---------- *)
default_qs ==
    <<"What is the name of your first pet?",
      "What was the model of your first car?",
      "In what city were you born?",
      "What is your mother's maiden name?",
      "What is the name of the street you grew up?",
      "What is the name of your primary school?">>

default_stations ==
    <<[name |-> "Main Station", num_grounds |-> 5],
      [name |-> "North Station", num_grounds |-> 3],
      [name |-> "South Station", num_grounds |-> 4],
      [name |-> "East Station", num_grounds |-> 2],
      [name |-> "West Station", num_grounds |-> 3]>>

Seeders == 1..NumSeeders
NotSeeded == <<users, profileVars, bookingVars, answers, inflight, last>>
SeederIdle == [pc |-> "idle"]

\* a process starts insert_default_questions (main.py) or init_database
\* (init_db.py) with a session of its own
seed_start(p, script) ==
    /\ seeding[p] = SeederIdle
    /\ seeding' = [seeding EXCEPT ![p] =
                      [pc |-> IF script = "init_db" THEN "stations" ELSE "questions",
                       i |-> 1, new_stations |-> <<>>, new_questions |-> <<>>]]
    /\ UNCHANGED <<NotSeeded, stationVars, questions>>

\* init_db.py lines 52-59: one turn of the loop, the query and db.add
init_database_station(p) ==
    /\ seeding[p].pc = "stations"
    /\ LET i == seeding[p].i
           station_data == default_stations[i]
           existing_station == \E k \in DOMAIN stations : stations[k].name = station_data.name
       IN  seeding' = [seeding EXCEPT
                          ![p].new_stations =
                              IF existing_station THEN @ ELSE Append(@, station_data),
                          ![p].i = IF i = Len(default_stations) THEN 1 ELSE i + 1,
                          ![p].pc = IF i = Len(default_stations) THEN "questions" ELSE @]
    /\ UNCHANGED <<NotSeeded, stationVars, questions>>

\* main.py lines 569-571, init_db.py lines 72-79: one turn of the loop
insert_default_questions_query(p) ==
    /\ seeding[p].pc = "questions"
    /\ LET i == seeding[p].i
           q == default_qs[i]
           existing_question == \E k \in DOMAIN questions : questions[k] = q
       IN  seeding' = [seeding EXCEPT
                          ![p].new_questions = IF existing_question THEN @ ELSE Append(@, q),
                          ![p].i = i + 1,
                          ![p].pc = IF i = Len(default_qs) THEN "commit" ELSE @]
    /\ UNCHANGED <<NotSeeded, stationVars, questions>>

\* main.py lines 572-573, init_db.py line 82: db.commit
insert_default_questions_commit(p) ==
    /\ seeding[p].pc = "commit"
    /\ questions' = questions \o seeding[p].new_questions
    /\ LET new_stations == seeding[p].new_stations
           ids == (stationSeq + 1)..(stationSeq + Len(new_stations))
       IN  /\ ids \cap DOMAIN stations = {}
           /\ stations' = [id \in DOMAIN stations \cup ids |->
                              IF id \in ids THEN new_stations[id - stationSeq]
                              ELSE stations[id]]
           /\ stationSeq' = stationSeq + Len(new_stations)
    /\ seeding' = [seeding EXCEPT ![p] = SeederIdle]
    /\ UNCHANGED NotSeeded

(* ---------- tables user_profiles, instructor_profile, station ---------- *)
Without(tbl, key) == [k \in DOMAIN tbl \ {key} |-> tbl[k]]

\* a booking points at the instructor profile (no ON DELETE, no ON UPDATE rule)
InstructorReferenced(user_id) ==
    \E b \in DOMAIN bookings : bookings[b].instructor_id = user_id

\* an instructor profile or a booking points at the station (no rule either)
StationReferenced(station_id) ==
    \/ \E u \in DOMAIN instructorProfiles : instructorProfiles[u].station_id = station_id
    \/ \E b \in DOMAIN bookings : bookings[b].station_id = station_id

\* user_profiles: primary key user_id, foreign key to users.id, unique
\* id_number; self is the key of the row being rewritten (0 for an INSERT)
UserProfileRejected(tbl, user_id, row, self) ==
    \/ user_id \notin DOMAIN users
    \/ \E u \in DOMAIN tbl \ {self} : u = user_id \/ tbl[u].id_number = row.id_number

\* as InstructorProfileRejected, without the foreign key to station
InstructorProfileRejected_no_station_key(tbl, user_id, row, self) ==
    \/ user_id \notin DOMAIN userProfiles
    \/ \E u \in DOMAIN tbl \ {self} : u = user_id \/ tbl[u].inf_nr = row.inf_nr

\* instructor_profile: primary key user_id, foreign keys to
\* user_profiles.user_id and station.station_id, unique inf_nr
InstructorProfileRejected(tbl, user_id, row, self) ==
    \/ user_id \notin DOMAIN userProfiles
    \/ row.station_id \notin DOMAIN stations
    \/ \E u \in DOMAIN tbl \ {self} : u = user_id \/ tbl[u].inf_nr = row.inf_nr

ProfileNotFound == HTTPException(404, "Profile not found")
InstructorProfileNotFound == HTTPException(404, "Instructor profile not found")
StationNotFound == HTTPException(404, "Station not found")

(* ---------- POST, PUT, DELETE /user-profiles/ ---------- *)
\* profile is profile.dict(): user_id and id_number (the other columns take
\* part in no constraint)
create_user_profile(profile) ==
    /\ LET row == [id_number |-> profile.id_number]
       IN  IF UserProfileRejected(userProfiles, profile.user_id, row, 0)
           THEN /\ last' = [op |-> "create_user_profile", res |-> Unhandled("IntegrityError")]
                /\ UNCHANGED userProfiles
           ELSE /\ userProfiles' = (profile.user_id :> row) @@ userProfiles
                /\ last' = [op |-> "create_user_profile", res |-> Ok]
    /\ UNCHANGED <<NotProfiles, learnerProfiles, instructorProfiles, stationVars,
                   bookingVars, inflight>>

\* lines 284-288: load the profile, or 404; setattr of every field of the
\* body, user_id included
update_user_profile_load(user_id, profile) ==
    /\ CanBegin
    /\ IF user_id \notin DOMAIN userProfiles
       THEN /\ last' = [op |-> "update_user_profile", res |-> ProfileNotFound]
            /\ UNCHANGED inflight
       ELSE /\ Begin([pc |-> "update_user_profile_commit", user_id |-> user_id,
                      changes |-> Changes(("user_id" :> user_id) @@ userProfiles[user_id],
                                          profile)])
            /\ UNCHANGED last
    /\ UNCHANGED <<NotProfiles, profileVars, stationVars, bookingVars>>

\* lines 289-290: db.commit flushes an UPDATE of the changed columns
update_user_profile_commit(t) ==
    /\ t.pc = "update_user_profile_commit"
    /\ End(t)
    /\ IF DOMAIN t.changes = {}
       THEN /\ last' = [op |-> "update_user_profile", res |-> Ok]
            /\ UNCHANGED userProfiles
       ELSE IF t.user_id \notin DOMAIN userProfiles
       THEN /\ last' = [op |-> "update_user_profile", res |-> Unhandled("StaleDataError")]
            /\ UNCHANGED userProfiles
       ELSE LET newid == IF "user_id" \in DOMAIN t.changes
                         THEN t.changes.user_id ELSE t.user_id
                row == [id_number |-> IF "id_number" \in DOMAIN t.changes
                                      THEN t.changes.id_number
                                      ELSE userProfiles[t.user_id].id_number]
            IN  IF \/ UserProfileRejected(userProfiles, newid, row, t.user_id)
                   \/ (newid # t.user_id /\ t.user_id \in DOMAIN instructorProfiles)
                THEN /\ last' = [op |-> "update_user_profile",
                                 res |-> Unhandled("IntegrityError")]
                     /\ UNCHANGED userProfiles
                ELSE /\ userProfiles' = (newid :> row) @@ Without(userProfiles, t.user_id)
                     /\ last' = [op |-> "update_user_profile", res |-> Ok]
    /\ UNCHANGED <<NotProfiles, learnerProfiles, instructorProfiles, stationVars, bookingVars>>

\* lines 294-296: load the profile, or 404
delete_user_profile_load(user_id) ==
    /\ CanBegin
    /\ IF user_id \notin DOMAIN userProfiles
       THEN /\ last' = [op |-> "delete_user_profile", res |-> ProfileNotFound]
            /\ UNCHANGED inflight
       ELSE /\ Begin([pc |-> "delete_user_profile_commit", user_id |-> user_id])
            /\ UNCHANGED last
    /\ UNCHANGED <<NotProfiles, profileVars, stationVars, bookingVars>>

\* lines 297-299: the DELETE cascades to the instructor profile of the user,
\* which a booking that names the instructor forbids
delete_user_profile_commit(t) ==
    /\ t.pc = "delete_user_profile_commit"
    /\ End(t)
    /\ IF /\ t.user_id \in DOMAIN userProfiles
          /\ t.user_id \in DOMAIN instructorProfiles
          /\ InstructorReferenced(t.user_id)
       THEN /\ last' = [op |-> "delete_user_profile", res |-> Unhandled("IntegrityError")]
            /\ UNCHANGED <<userProfiles, instructorProfiles>>
       ELSE /\ userProfiles' = Without(userProfiles, t.user_id)
            /\ instructorProfiles' =
                  IF t.user_id \in DOMAIN userProfiles
                  THEN Without(instructorProfiles, t.user_id) ELSE instructorProfiles
            /\ last' = [op |-> "delete_user_profile", res |-> Ok]
    /\ UNCHANGED <<NotProfiles, learnerProfiles, stationVars, bookingVars>>

(* ---------- POST, PUT, DELETE /instructor-profiles/ ---------- *)
\* lines 304-306: the request starts with the query of the user profile
create_instructor_profile_user_profile(profile) ==
    /\ CanBegin
    /\ IF profile.user_id \notin DOMAIN userProfiles
       THEN /\ last' = [op |-> "create_instructor_profile",
                        res |-> HTTPException(404, "User profile not found")]
            /\ UNCHANGED inflight
       ELSE /\ Begin([pc |-> "create_instructor_profile_station", profile |-> profile])
            /\ UNCHANGED last
    /\ UNCHANGED <<NotProfiles, profileVars, stationVars, bookingVars>>

\* lines 309-311: the query of the station
create_instructor_profile_station(t) ==
    /\ t.pc = "create_instructor_profile_station"
    /\ IF t.profile.station_id \notin DOMAIN stations
       THEN /\ last' = [op |-> "create_instructor_profile",
                        res |-> HTTPException(404, "Selected station does not exist")]
            /\ End(t)
       ELSE /\ Proceed(t, [t EXCEPT !.pc = "create_instructor_profile_by_user"])
            /\ UNCHANGED last
    /\ UNCHANGED <<NotProfiles, profileVars, stationVars, bookingVars>>

\* lines 314-315: the query of an instructor profile of the user
create_instructor_profile_by_user(t) ==
    /\ t.pc = "create_instructor_profile_by_user"
    /\ IF t.profile.user_id \in DOMAIN instructorProfiles
       THEN /\ last' = [op |-> "create_instructor_profile",
                        res |-> HTTPException(400, "Instructor profile already exists")]
            /\ End(t)
       ELSE /\ Proceed(t, [t EXCEPT !.pc = "create_instructor_profile_by_inf_nr"])
            /\ UNCHANGED last
    /\ UNCHANGED <<NotProfiles, profileVars, stationVars, bookingVars>>

\* lines 317-318: the query of an instructor profile with the inf_nr
create_instructor_profile_by_inf_nr(t) ==
    /\ t.pc = "create_instructor_profile_by_inf_nr"
    /\ IF \E u \in DOMAIN instructorProfiles : instructorProfiles[u].inf_nr = t.profile.inf_nr
       THEN /\ last' = [op |-> "create_instructor_profile",
                        res |-> HTTPException(400, "Instructor number already exists")]
            /\ End(t)
       ELSE /\ Proceed(t, [t EXCEPT !.pc = "create_instructor_profile_commit"])
            /\ UNCHANGED last
    /\ UNCHANGED <<NotProfiles, profileVars, stationVars, bookingVars>>

\* lines 320-322: db.add, db.commit: the INSERT under the constraints
create_instructor_profile_commit(t) ==
    /\ t.pc = "create_instructor_profile_commit"
    /\ End(t)
    /\ LET row == [inf_nr |-> t.profile.inf_nr, station_id |-> t.profile.station_id]
       IN  IF InstructorProfileRejected(instructorProfiles, t.profile.user_id, row, 0)
           THEN /\ last' = [op |-> "create_instructor_profile",
                            res |-> Unhandled("IntegrityError")]
                /\ UNCHANGED instructorProfiles
           ELSE /\ instructorProfiles' = (t.profile.user_id :> row) @@ instructorProfiles
                /\ last' = [op |-> "create_instructor_profile", res |-> Ok]
    /\ UNCHANGED <<NotProfiles, userProfiles, learnerProfiles, stationVars, bookingVars>>

\* lines 363-366: load the profile, or 404; setattr of inf_nr alone
update_instructor_profile_load(user_id, profile) ==
    /\ CanBegin
    /\ IF user_id \notin DOMAIN instructorProfiles
       THEN /\ last' = [op |-> "update_instructor_profile", res |-> InstructorProfileNotFound]
            /\ UNCHANGED inflight
       ELSE /\ Begin([pc |-> "update_instructor_profile_commit", user_id |-> user_id,
                      changes |-> Changes(instructorProfiles[user_id],
                                          [inf_nr |-> profile.inf_nr])])
            /\ UNCHANGED last
    /\ UNCHANGED <<NotProfiles, profileVars, stationVars, bookingVars>>

\* lines 367-368: db.commit flushes an UPDATE of inf_nr when it changed
update_instructor_profile_commit(t) ==
    /\ t.pc = "update_instructor_profile_commit"
    /\ End(t)
    /\ IF DOMAIN t.changes = {}
       THEN /\ last' = [op |-> "update_instructor_profile", res |-> Ok]
            /\ UNCHANGED instructorProfiles
       ELSE IF t.user_id \notin DOMAIN instructorProfiles
       THEN /\ last' = [op |-> "update_instructor_profile",
                        res |-> Unhandled("StaleDataError")]
            /\ UNCHANGED instructorProfiles
       ELSE LET row == [instructorProfiles[t.user_id] EXCEPT !.inf_nr = t.changes.inf_nr]
            IN  IF InstructorProfileRejected(instructorProfiles, t.user_id, row, t.user_id)
                THEN /\ last' = [op |-> "update_instructor_profile",
                                 res |-> Unhandled("IntegrityError")]
                     /\ UNCHANGED instructorProfiles
                ELSE /\ instructorProfiles' = [instructorProfiles EXCEPT ![t.user_id] = row]
                     /\ last' = [op |-> "update_instructor_profile", res |-> Ok]
    /\ UNCHANGED <<NotProfiles, userProfiles, learnerProfiles, stationVars, bookingVars>>

\* lines 373-375: load the profile, or 404
delete_instructor_profile_load(user_id) ==
    /\ CanBegin
    /\ IF user_id \notin DOMAIN instructorProfiles
       THEN /\ last' = [op |-> "delete_instructor_profile", res |-> InstructorProfileNotFound]
            /\ UNCHANGED inflight
       ELSE /\ Begin([pc |-> "delete_instructor_profile_commit", user_id |-> user_id])
            /\ UNCHANGED last
    /\ UNCHANGED <<NotProfiles, profileVars, stationVars, bookingVars>>

\* lines 376-378: the DELETE, which a booking that names the instructor forbids
delete_instructor_profile_commit(t) ==
    /\ t.pc = "delete_instructor_profile_commit"
    /\ End(t)
    /\ IF t.user_id \in DOMAIN instructorProfiles /\ InstructorReferenced(t.user_id)
       THEN /\ last' = [op |-> "delete_instructor_profile",
                        res |-> Unhandled("IntegrityError")]
            /\ UNCHANGED instructorProfiles
       ELSE /\ instructorProfiles' = Without(instructorProfiles, t.user_id)
            /\ last' = [op |-> "delete_instructor_profile", res |-> Ok]
    /\ UNCHANGED <<NotProfiles, userProfiles, learnerProfiles, stationVars, bookingVars>>

(* ---------- POST, PUT, DELETE /stations/ ---------- *)
\* fields is station.dict(exclude_unset=True); a station_id it holds is a number
create_station(fields) ==
    /\ LET explicit == "station_id" \in DOMAIN fields
           id == IF explicit THEN fields.station_id ELSE stationSeq + 1
           row == [name |-> fields.name, num_grounds |-> fields.num_grounds]
       IN  /\ id <= MaxStationId
           /\ stationSeq' = IF explicit THEN stationSeq ELSE stationSeq + 1
           /\ IF id \in DOMAIN stations
              THEN /\ UNCHANGED stations
                   /\ last' = [op |-> "create_station", res |-> Unhandled("IntegrityError")]
              ELSE /\ stations' = (id :> row) @@ stations
                   /\ last' = [op |-> "create_station", res |-> Ok]
    /\ UNCHANGED <<NotProfiles, profileVars, bookingVars, inflight>>

\* lines 596-600: load the station, or 404; setattr of the fields of the body
update_station_load(station_id, fields) ==
    /\ CanBegin
    /\ IF station_id \notin DOMAIN stations
       THEN /\ last' = [op |-> "update_station", res |-> StationNotFound]
            /\ UNCHANGED inflight
       ELSE /\ Begin([pc |-> "update_station_commit", station_id |-> station_id,
                      changes |-> Changes(("station_id" :> station_id) @@ stations[station_id],
                                          fields)])
            /\ UNCHANGED last
    /\ UNCHANGED <<NotProfiles, profileVars, stationVars, bookingVars>>

\* lines 601-602: db.commit flushes an UPDATE of the changed columns; a new
\* station_id must be free, and the old one must have no row pointing at it
update_station_commit(t) ==
    /\ t.pc = "update_station_commit"
    /\ End(t)
    /\ IF DOMAIN t.changes = {}
       THEN /\ last' = [op |-> "update_station", res |-> Ok]
            /\ UNCHANGED stations
       ELSE IF t.station_id \notin DOMAIN stations
       THEN /\ last' = [op |-> "update_station", res |-> Unhandled("StaleDataError")]
            /\ UNCHANGED stations
       ELSE LET newid == IF "station_id" \in DOMAIN t.changes
                         THEN t.changes.station_id ELSE t.station_id
                row == [f \in {"name", "num_grounds"} |->
                           IF f \in DOMAIN t.changes THEN t.changes[f]
                           ELSE stations[t.station_id][f]]
            IN  IF newid # t.station_id
                   /\ (newid \in DOMAIN stations \/ StationReferenced(t.station_id))
                THEN /\ last' = [op |-> "update_station", res |-> Unhandled("IntegrityError")]
                     /\ UNCHANGED stations
                ELSE /\ stations' = (newid :> row) @@ Without(stations, t.station_id)
                     /\ last' = [op |-> "update_station", res |-> Ok]
    /\ UNCHANGED <<NotProfiles, profileVars, stationSeq, bookingVars>>

\* lines 606-608: load the station, or 404
delete_station_load(station_id) ==
    /\ CanBegin
    /\ IF station_id \notin DOMAIN stations
       THEN /\ last' = [op |-> "delete_station", res |-> StationNotFound]
            /\ UNCHANGED inflight
       ELSE /\ Begin([pc |-> "delete_station_commit", station_id |-> station_id])
            /\ UNCHANGED last
    /\ UNCHANGED <<NotProfiles, profileVars, stationVars, bookingVars>>

\* lines 609-611: the DELETE, which a row that points at the station forbids
delete_station_commit(t) ==
    /\ t.pc = "delete_station_commit"
    /\ End(t)
    /\ IF t.station_id \in DOMAIN stations /\ StationReferenced(t.station_id)
       THEN /\ last' = [op |-> "delete_station", res |-> Unhandled("IntegrityError")]
            /\ UNCHANGED stations
       ELSE /\ stations' = Without(stations, t.station_id)
            /\ last' = [op |-> "delete_station", res |-> Ok]
    /\ UNCHANGED <<NotProfiles, profileVars, stationSeq, bookingVars>>

(* ---------- POST, PUT, DELETE /learner-profiles/ ---------- *)
\* a booking points at the learner profile (ON DELETE CASCADE, no ON UPDATE rule)
LearnerReferenced(user_id) ==
    \E b \in DOMAIN bookings : bookings[b].learner_id = user_id

\* learner_profiles: primary key user_id, foreign key to users.id
\* (the other columns take part in no constraint)
create_learner_profile(profile) ==
    /\ IF profile.user_id \in learnerProfiles \/ profile.user_id \notin DOMAIN users
       THEN /\ last' = [op |-> "create_learner_profile", res |-> Unhandled("IntegrityError")]
            /\ UNCHANGED learnerProfiles
       ELSE /\ learnerProfiles' = learnerProfiles \cup {profile.user_id}
            /\ last' = [op |-> "create_learner_profile", res |-> Ok]
    /\ UNCHANGED <<NotProfiles, userProfiles, instructorProfiles, stationVars,
                   bookingVars, inflight>>

\* lines 399-403: load the profile, or 404; setattr of every field of the
\* body, user_id included
update_learner_profile_load(user_id, profile) ==
    /\ CanBegin
    /\ IF user_id \notin learnerProfiles
       THEN /\ last' = [op |-> "update_learner_profile", res |-> ProfileNotFound]
            /\ UNCHANGED inflight
       ELSE /\ Begin([pc |-> "update_learner_profile_commit", user_id |-> user_id,
                      changes |-> Changes([user_id |-> user_id],
                                          [user_id |-> profile.user_id])])
            /\ UNCHANGED last
    /\ UNCHANGED <<NotProfiles, profileVars, stationVars, bookingVars>>

\* lines 404-405: db.commit flushes an UPDATE of the changed columns
update_learner_profile_commit(t) ==
    /\ t.pc = "update_learner_profile_commit"
    /\ End(t)
    /\ IF DOMAIN t.changes = {}
       THEN /\ last' = [op |-> "update_learner_profile", res |-> Ok]
            /\ UNCHANGED learnerProfiles
       ELSE IF t.user_id \notin learnerProfiles
       THEN /\ last' = [op |-> "update_learner_profile", res |-> Unhandled("StaleDataError")]
            /\ UNCHANGED learnerProfiles
       ELSE IF \/ t.changes.user_id \in learnerProfiles
               \/ t.changes.user_id \notin DOMAIN users
               \/ LearnerReferenced(t.user_id)
       THEN /\ last' = [op |-> "update_learner_profile", res |-> Unhandled("IntegrityError")]
            /\ UNCHANGED learnerProfiles
       ELSE /\ learnerProfiles' = (learnerProfiles \ {t.user_id}) \cup {t.changes.user_id}
            /\ last' = [op |-> "update_learner_profile", res |-> Ok]
    /\ UNCHANGED <<NotProfiles, userProfiles, instructorProfiles, stationVars, bookingVars>>

\* lines 409-411: load the profile, or 404
delete_learner_profile_load(user_id) ==
    /\ CanBegin
    /\ IF user_id \notin learnerProfiles
       THEN /\ last' = [op |-> "delete_learner_profile", res |-> ProfileNotFound]
            /\ UNCHANGED inflight
       ELSE /\ Begin([pc |-> "delete_learner_profile_commit", user_id |-> user_id])
            /\ UNCHANGED last
    /\ UNCHANGED <<NotProfiles, profileVars, stationVars, bookingVars>>

\* lines 412-414: the DELETE cascades to the bookings of the learner
delete_learner_profile_commit(t) ==
    /\ t.pc = "delete_learner_profile_commit"
    /\ End(t)
    /\ learnerProfiles' = learnerProfiles \ {t.user_id}
    /\ bookings' = IF t.user_id \in learnerProfiles
                   THEN [b \in {c \in DOMAIN bookings : bookings[c].learner_id # t.user_id}
                            |-> bookings[b]]
                   ELSE bookings
    /\ last' = [op |-> "delete_learner_profile", res |-> Ok]
    /\ UNCHANGED <<NotProfiles, userProfiles, instructorProfiles, stationVars, bookingSeq>>

(* ---------- initial values of the tables a specification leaves alone ---------- *)
NoProfiles ==
    /\ userProfiles = <<>>
    /\ learnerProfiles = {}
    /\ instructorProfiles = <<>>
    /\ stations = <<>>
    /\ stationSeq = 0

NoBookings ==
    /\ bookings = <<>>
    /\ bookingSeq = 0

NoAnswers == answers = <<>>

NotSeeding ==
    /\ questions = <<>>
    /\ seeding = [p \in Seeders |-> SeederIdle]

(* ---------- specification: user management under concurrent requests ---------- *)
\* three requests: the first two share nothing, the third shares its
\* username with the first and its email with the second
UserReqs ==
    {[username |-> "alice", email |-> "a@x.org", password |-> 1,
      role |-> "instructor", is_active |-> TRUE],
     [username |-> "bob", email |-> "b@x.org", password |-> 2,
      role |-> "learner", is_active |-> FALSE],
     [username |-> "alice", email |-> "b@x.org", password |-> 1,
      role |-> "learner", is_active |-> TRUE]}

InitUsers ==
    /\ users = <<>>
    /\ NoProfiles
    /\ NoBookings
    /\ NoAnswers
    /\ NotSeeding
    /\ inflight = EmptyBag
    /\ last = NoResponse

NextUsers ==
    \/ \E r \in UserReqs : create_user_check(r, 0)
    \/ \E t \in InFlight("create_user_commit") : create_user_commit(t)
    \/ \E id \in 1..MaxUsers, r \in UserReqs : update_user_load(id, r, 0)
    \/ \E t \in InFlight("update_user_check") : update_user_check(t)
    \/ \E t \in InFlight("update_user_commit") : update_user_commit(t)

SpecUsers == InitUsers /\ [][NextUsers]_vars

(* ---------- specification: login over every user table ---------- *)
\* the rows of the tables drawn: each username with an email and a salt of
\* its own, every password, role and active flag
UserRows ==
    {[username |-> u,
      password |-> get_password_hash(p, IF u = "alice" THEN 0 ELSE 1),
      email |-> IF u = "alice" THEN "a@x.org" ELSE "b@x.org",
      role |-> ro, is_active |-> a] :
        u \in Usernames, p \in Passwords, ro \in Roles, a \in BOOLEAN}

\* the tables create_user and update_user can build: unique usernames and emails
UserTables ==
    {t \in UNION {[1..n -> UserRows] : n \in 0..MaxUsers} :
        \A i, j \in DOMAIN t :
            i # j => (t[i].username # t[j].username /\ t[i].email # t[j].email)}

LoginReqs == [username : Usernames \cup {"carol"}, password : Passwords, role : RoleHints]

InitLogin ==
    /\ users \in UserTables
    /\ NoProfiles
    /\ NoBookings
    /\ NoAnswers
    /\ NotSeeding
    /\ inflight = EmptyBag
    /\ last = NoResponse

NextLogin == \E r \in LoginReqs : login(r)

SpecLogin == InitLogin /\ [][NextLogin]_vars

(* ---------- specification: bookings under concurrent requests ---------- *)
Results == {"pending", "passed", "failed", "absent"}
DateTexts == {"2024-05-01", "2024-5-1", "2024-05-02", "2024-5-2", "tomorrow"}

\* the required fields of LearnerTestBookingSchema for a test date
BookingFields(test_date) ==
    [learner_id |-> 1, instructor_id |-> 2, station_id |-> 1, test_date |-> test_date]

BookingCreateReqs ==
    {BookingFields("2024-05-01"),
     BookingFields("2024-05-02"),
     ("result" :> "passed") @@ BookingFields("2024-05-01"),
     ("result" :> None) @@ BookingFields("2024-05-02"),
     [BookingFields("2024-05-01") EXCEPT !.learner_id = 2]}

BookingUpdateReqs ==
    {BookingFields("2024-05-02"),
     ("result" :> "failed") @@ BookingFields("2024-05-01"),
     ("result" :> None) @@ BookingFields("2024-05-01")}

\* a learner (user 1) and an instructor (user 2) of station 1
InitBookings ==
    /\ users = <<UserRow([username |-> "alice", password |-> 1, email |-> "a@x.org",
                          role |-> "learner", is_active |-> TRUE], 0),
                 UserRow([username |-> "bob", password |-> 2, email |-> "b@x.org",
                          role |-> "instructor", is_active |-> TRUE], 1)>>
    /\ userProfiles = (2 :> [id_number |-> "ID-B"])
    /\ learnerProfiles = {1}
    /\ stations = (1 :> [name |-> "Main Station", num_grounds |-> 5])
    /\ stationSeq = 1
    /\ instructorProfiles = (2 :> [inf_nr |-> "INF-1", station_id |-> 1])
    /\ NoBookings
    /\ NoAnswers
    /\ questions = default_qs
    /\ seeding = [p \in Seeders |-> SeederIdle]
    /\ inflight = EmptyBag
    /\ last = NoResponse

NextBookings ==
    \/ \E fields \in BookingCreateReqs : create_test_booking(fields)
    \/ \E id \in 1..MaxBookingId, result \in Results : update_test_result_load(id, result)
    \/ \E t \in InFlight("update_test_result_commit") : update_test_result_commit(t)
    \/ \E id \in 1..MaxBookingId, fields \in BookingUpdateReqs :
          update_test_booking_load(id, fields)
    \/ \E t \in InFlight("update_test_booking_commit") : update_test_booking_commit(t)
    \/ \E id \in 1..MaxBookingId : delete_test_booking_load(id)
    \/ \E t \in InFlight("delete_test_booking_commit") : delete_test_booking_commit(t)

SpecBookings == InitBookings /\ [][NextBookings]_vars

(* ---------- specification: security answers ---------- *)
AnswerReqs == [user_id : 1..2, question_id : {1, 2, 7}, answer : Passwords]

\* two users, the seeded catalog, no answer yet
InitAnswers ==
    /\ users = <<UserRow([username |-> "alice", password |-> 1, email |-> "a@x.org",
                          role |-> "learner", is_active |-> TRUE], 0),
                 UserRow([username |-> "bob", password |-> 2, email |-> "b@x.org",
                          role |-> "instructor", is_active |-> TRUE], 1)>>
    /\ NoProfiles
    /\ NoBookings
    /\ NoAnswers
    /\ questions = default_qs
    /\ seeding = [p \in Seeders |-> SeederIdle]
    /\ inflight = EmptyBag
    /\ last = NoResponse

NextAnswers ==
    \/ \E r \in AnswerReqs : create_security_answer_add(r, 0)
    \/ \E t \in InFlight("create_security_answer_commit") : create_security_answer_commit(t)

SpecAnswers == InitAnswers /\ [][NextAnswers]_vars

(* ---------- specification: seeding by concurrent processes ---------- *)
\* the catalog is empty, or holds a question of its own and one of the six
InitSeeding ==
    /\ users = <<>>
    /\ NoProfiles
    /\ NoBookings
    /\ NoAnswers
    /\ questions \in {<<>>, <<"What is your favourite colour?", default_qs[3]>>}
    /\ seeding = [p \in Seeders |-> SeederIdle]
    /\ inflight = EmptyBag
    /\ last = NoResponse

NextSeeding ==
    \/ \E p \in Seeders, script \in {"main", "init_db"} : seed_start(p, script)
    \/ \E p \in Seeders : init_database_station(p)
    \/ \E p \in Seeders : insert_default_questions_query(p)
    \/ \E p \in Seeders : insert_default_questions_commit(p)

SpecSeeding == InitSeeding /\ [][NextSeeding]_vars

(* ---------- specification: profiles and stations ---------- *)
UserProfileReqs ==
    {[user_id |-> 1, id_number |-> "ID-A"], [user_id |-> 2, id_number |-> "ID-B"]}
\* the body of PUT /user-profiles/1 names user 2
UserProfileUpdateReqs == {[user_id |-> 2, id_number |-> "ID-A"]}
InstructorProfileReqs ==
    {[user_id |-> 1, inf_nr |-> "INF-1", station_id |-> 1],
     [user_id |-> 2, inf_nr |-> "INF-1", station_id |-> 1],
     [user_id |-> 2, inf_nr |-> "INF-2", station_id |-> 2]}
StationCreateReqs == {[name |-> "Main Station", num_grounds |-> 5]}
StationUpdateReqs == {[station_id |-> 2, name |-> "Main Station", num_grounds |-> 5]}

\* two users; no profile, no station
InitProfiles ==
    /\ users = <<UserRow([username |-> "alice", password |-> 1, email |-> "a@x.org",
                          role |-> "instructor", is_active |-> TRUE], 0),
                 UserRow([username |-> "bob", password |-> 2, email |-> "b@x.org",
                          role |-> "instructor", is_active |-> TRUE], 1)>>
    /\ NoProfiles
    /\ NoBookings
    /\ NoAnswers
    /\ questions = default_qs
    /\ seeding = [p \in Seeders |-> SeederIdle]
    /\ inflight = EmptyBag
    /\ last = NoResponse

NextProfiles ==
    \/ \E profile \in UserProfileReqs : create_user_profile(profile)
    \/ \E profile \in UserProfileUpdateReqs : update_user_profile_load(1, profile)
    \/ \E t \in InFlight("update_user_profile_commit") : update_user_profile_commit(t)
    \/ \E user_id \in 1..2 : delete_user_profile_load(user_id)
    \/ \E t \in InFlight("delete_user_profile_commit") : delete_user_profile_commit(t)
    \/ \E profile \in InstructorProfileReqs : create_instructor_profile_user_profile(profile)
    \/ \E t \in InFlight("create_instructor_profile_station") :
          create_instructor_profile_station(t)
    \/ \E t \in InFlight("create_instructor_profile_by_user") :
          create_instructor_profile_by_user(t)
    \/ \E t \in InFlight("create_instructor_profile_by_inf_nr") :
          create_instructor_profile_by_inf_nr(t)
    \/ \E t \in InFlight("create_instructor_profile_commit") :
          create_instructor_profile_commit(t)
    \/ \E profile \in InstructorProfileReqs :
          update_instructor_profile_load(profile.user_id, profile)
    \/ \E t \in InFlight("update_instructor_profile_commit") :
          update_instructor_profile_commit(t)
    \/ \E user_id \in 1..2 : delete_instructor_profile_load(user_id)
    \/ \E t \in InFlight("delete_instructor_profile_commit") :
          delete_instructor_profile_commit(t)
    \/ \E fields \in StationCreateReqs : create_station(fields)
    \/ \E station_id \in 1..MaxStationId, fields \in StationUpdateReqs :
          update_station_load(station_id, fields)
    \/ \E t \in InFlight("update_station_commit") : update_station_commit(t)
    \/ \E station_id \in 1..MaxStationId : delete_station_load(station_id)
    \/ \E t \in InFlight("delete_station_commit") : delete_station_commit(t)

SpecProfiles == InitProfiles /\ [][NextProfiles]_vars

(* ---------- specification: bookings whose requests carry a booking_id ---------- *)
\* booking_id is an optional field of LearnerTestBookingSchema
BookingIdCreateReqs ==
    {BookingFields("2024-05-01"),
     ("booking_id" :> 2) @@ BookingFields("2024-05-01")}

BookingIdUpdateReqs ==
    {BookingFields("2024-05-02"),
     ("booking_id" :> 2) @@ BookingFields("2024-05-01")}

NextBookingIds ==
    \/ \E fields \in BookingIdCreateReqs : create_test_booking(fields)
    \/ \E id \in 1..MaxBookingId, fields \in BookingIdUpdateReqs :
          update_test_booking_load(id, fields)
    \/ \E t \in InFlight("update_test_booking_commit") : update_test_booking_commit(t)
    \/ \E id \in 1..MaxBookingId : delete_test_booking_load(id)
    \/ \E t \in InFlight("delete_test_booking_commit") : delete_test_booking_commit(t)

SpecBookingIds == InitBookings /\ [][NextBookingIds]_vars

(* ---------- specification: bookings among deletions in the other tables ---------- *)
NextRemoval ==
    \/ create_test_booking(BookingFields("2024-05-01"))
    \/ \E id \in 1..MaxBookingId : update_test_result_load(id, "passed")
    \/ \E t \in InFlight("update_test_result_commit") : update_test_result_commit(t)
    \/ \E id \in 1..MaxBookingId : delete_test_booking_load(id)
    \/ \E t \in InFlight("delete_test_booking_commit") : delete_test_booking_commit(t)
    \/ create_learner_profile([user_id |-> 1])
    \/ update_learner_profile_load(1, [user_id |-> 2])
    \/ \E t \in InFlight("update_learner_profile_commit") : update_learner_profile_commit(t)
    \/ delete_learner_profile_load(1)
    \/ \E t \in InFlight("delete_learner_profile_commit") : delete_learner_profile_commit(t)
    \/ delete_instructor_profile_load(2)
    \/ \E t \in InFlight("delete_instructor_profile_commit") :
          delete_instructor_profile_commit(t)
    \/ delete_user_profile_load(2)
    \/ \E t \in InFlight("delete_user_profile_commit") : delete_user_profile_commit(t)
    \/ update_station_load(1, [station_id |-> 2, name |-> "Main Station", num_grounds |-> 5])
    \/ \E t \in InFlight("update_station_commit") : update_station_commit(t)
    \/ delete_station_load(1)
    \/ \E t \in InFlight("delete_station_commit") : delete_station_commit(t)

SpecRemoval == InitBookings /\ [][NextRemoval]_vars

(* ---------- specification: the active flag ---------- *)
\* bodies of PUT /users/id/1: without is_active, and with is_active false
UserUpdateBodies ==
    {[username |-> "alice", password |-> 1, email |-> "a@x.org", role |-> "instructor"],
     [username |-> "alice", password |-> 1, email |-> "a@x.org", role |-> "instructor",
      is_active |-> FALSE]}

\* one instructor, active
InitActive ==
    /\ users = <<UserRow([username |-> "alice", password |-> 1, email |-> "a@x.org",
                          role |-> "instructor", is_active |-> TRUE], 0)>>
    /\ NoProfiles
    /\ NoBookings
    /\ NoAnswers
    /\ questions = default_qs
    /\ seeding = [p \in Seeders |-> SeederIdle]
    /\ inflight = EmptyBag
    /\ last = NoResponse

NextActive ==
    \/ \E user_id \in 1..2, is_active \in BOOLEAN :
          update_user_is_active_load(user_id, is_active)
    \/ \E t \in InFlight("update_user_is_active_commit") : update_user_is_active_commit(t)
    \/ \E body \in UserUpdateBodies : update_user_load(1, UserCreate(body), 1)
    \/ \E t \in InFlight("update_user_check") : update_user_check(t)
    \/ \E t \in InFlight("update_user_commit") : update_user_commit(t)
    \/ \E password \in Passwords :
          login([username |-> "alice", password |-> password, role |-> "instructor"])

SpecActive == InitActive /\ [][NextActive]_vars

(* ====================== claims ====================== *)
InvalidCredentials == HTTPException(401, "Invalid credentials")
UsernameOrEmailConflict == HTTPException(400, "Username or email already exists")

\* a stored user has the username or the email
Collides(tbl, username, email) ==
    \E i \in DOMAIN tbl : tbl[i].username = username \/ tbl[i].email = email

NoTwoUsersShare(tbl) ==
    \A i, j \in DOMAIN tbl :
        i # j => (tbl[i].username # tbl[j].username /\ tbl[i].email # tbl[j].email)

\* C1: createUser with a username or an email that a stored user already has
\* is answered with the conflict error and stores nothing: the users table is
\* unchanged, whichever of the two fields collides.  A request that passed
\* the existence query and finds the collision only when it commits is
\* rejected by the unique constraint, again without storing anything.
C1_DuplicateCreateUserRejected ==
    [][/\ \A r \in UserReqs :
             (create_user_check(r, 0) /\ Collides(users, r.username, r.email))
                 => (last' = [op |-> "create_user", res |-> UsernameOrEmailConflict]
                     /\ users' = users /\ inflight' = inflight)
       /\ \A t \in InFlight("create_user_commit") :
             (create_user_commit(t) /\ Collides(users, t.row.username, t.row.email))
                 => (last'.op = "create_user" /\ last'.res.status # 200
                     /\ users' = users)
      ]_vars

C1_Witness ==
    /\ last = [op |-> "create_user", res |-> UsernameOrEmailConflict]
    /\ Len(users) = 1

\* C2: no two stored users share a username or an email, in every state
\* reached by interleaved createUser and updateUser requests; the existence
\* query of updateUser answers the conflict error exactly when a user other
\* than the updated one has the username or the email, and an update that
\* keeps the username and email the user was loaded with always commits.
C2_UsernameAndEmailUnique ==
    [][/\ NoTwoUsersShare(users')
       /\ \A t \in InFlight("update_user_check") :
             update_user_check(t) =>
                LET taken == \E i \in DOMAIN users :
                                /\ i # t.id
                                /\ (users[i].username = t.row.username
                                    \/ users[i].email = t.row.email)
                IN  /\ users' = users
                    /\ taken => (last' = [op |-> "update_user",
                                          res |-> UsernameOrEmailConflict]
                                 /\ CopiesIn(t, inflight') < CopiesIn(t, inflight))
                    /\ ~taken => \E u \in InFlight("update_user_commit")' :
                                    u.id = t.id /\ u.row = t.row
       /\ \A t \in InFlight("update_user_commit") :
             (update_user_commit(t)
                /\ t.row.username = t.loaded.username
                /\ t.row.email = t.loaded.email)
                    => (last' = [op |-> "update_user", res |-> Ok]
                        /\ users'[t.id].username = users[t.id].username
                        /\ users'[t.id].email = users[t.id].email)
      ]_vars

\* two users are stored and the last update succeeded
C2_Witness ==
    /\ Len(users) = 2
    /\ last = [op |-> "update_user", res |-> Ok]
    /\ users[1].username # users[2].username

\* C3: login decides in a fixed order: invalid credentials when no user has
\* the username or the password does not verify, else forbidden when the
\* stored role is not instructor, admin or super_admin, else forbidden when
\* the user is inactive, else the identity of the stored user.  The role of
\* the request has no influence, and a login changes no stored user.
C3_Decision(tbl, r) ==
    LET res == LoginResponse(tbl, r)
        known == {i \in DOMAIN tbl : tbl[i].username = r.username}
        good == {i \in known : verify_password(r.password, tbl[i].password)}
        staff == {i \in good : tbl[i].role \in {"instructor", "admin", "super_admin"}}
        active == {i \in staff : tbl[i].is_active}
    IN  /\ good = {} => res = InvalidCredentials
        /\ (good # {} /\ staff = {}) =>
              (res.status = 403 /\ res.detail # "User inactive")
        /\ (staff # {} /\ active = {}) =>
              res = HTTPException(403, "User inactive")
        /\ active # {} =>
              \E i \in active :
                  res = [status |-> 200, detail |-> "OK", userid |-> i,
                         username |-> r.username, role |-> tbl[i].role,
                         email |-> tbl[i].email]
        /\ \A hint \in RoleHints :
              LoginResponse(tbl, [r EXCEPT !.role = hint]) = res

C3_LoginDecisionOrder ==
    [][\A r \in LoginReqs :
          /\ C3_Decision(users, r)
          /\ login(r) => (users' = users /\ last'.res = LoginResponse(users', r))
      ]_vars

\* a learner with an inactive account and the right password is refused for
\* the role, not for the inactive account
C3_Witness ==
    /\ last.op = "login"
    /\ last.res.status = 403
    /\ last.res.detail # "User inactive"
    /\ \E i \in DOMAIN users :
          /\ users[i].username = last.req.username
          /\ users[i].role = "learner"
          /\ ~users[i].is_active

\* C4: a login with a username that is not stored and a login with a stored
\* username and a wrong password get the same response, whatever the role
\* and the active flag of the stored user.
C4_NoUserEnumeration ==
    \A r1, r2 \in LoginReqs :
        LET id2 == UserByUsername(users, r2.username) IN
        (/\ UserByUsername(users, r1.username) = 0
         /\ id2 # 0
         /\ ~verify_password(r2.password, users[id2].password))
            => /\ LoginResponse(users, r1) = LoginResponse(users, r2)
               /\ LoginResponse(users, r1) = InvalidCredentials

\* a wrong password for a stored inactive learner was answered, and the
\* answer is the one an unknown username gets
C4_Witness ==
    /\ last.op = "login"
    /\ last.res = InvalidCredentials
    /\ \E i \in DOMAIN users :
          /\ users[i].username = last.req.username
          /\ users[i].role = "learner"
          /\ ~users[i].is_active
          /\ ~verify_password(last.req.password, users[i].password)
    /\ \E r \in LoginReqs : UserByUsername(users, r.username) = 0

\* C5: updateResult overwrites unconditionally: when an updateResult call on
\* a stored booking has committed and answered success, the stored result of
\* that booking is the value of the call, whatever other updateResult calls
\* were in progress (the call that commits last wins).
C5_LastCommitWins ==
    [][\A t \in InFlight("update_test_result_commit") :
          (update_test_result_commit(t) /\ last'.res = Ok /\ t.id \in DOMAIN bookings')
              => bookings'[t.id].result = t.result
      ]_vars

\* C6: a booking created with no result is stored as pending, and a stored
\* pending booking gets another result only by the commit of an updateResult
\* or of an updateBooking whose request holds a result.
C6_PendingUntilResultUpdate ==
    [][/\ \A fields \in BookingCreateReqs :
             (create_test_booking(fields) /\ last'.res = Ok
                /\ ("result" \notin DOMAIN fields \/ fields.result = None))
                 => \E id \in DOMAIN bookings' \ DOMAIN bookings :
                       bookings'[id].result = "pending"
       /\ \A id \in DOMAIN bookings \cap DOMAIN bookings' :
             (bookings[id].result = "pending" /\ bookings'[id].result # "pending")
                 => \E t \in BagToSet(inflight) :
                       /\ t.id = id
                       /\ \/ update_test_result_commit(t)
                          \/ update_test_booking_commit(t) /\ "result" \in DOMAIN t.fields
      ]_vars

\* the only booking ever created is stored as pending after an update of
\* its date that gave no result
C6_Witness ==
    /\ bookingSeq = 1
    /\ DOMAIN bookings = {1}
    /\ bookings[1].result = "pending"
    /\ bookings[1].test_date = "2024-05-02"
    /\ last = [op |-> "update_test_booking", res |-> Ok]

BookingsOn(date) == {i \in DOMAIN bookings : bookings[i].test_date = date}

\* C7: for every date, pending-for-date and completed-for-date split the
\* bookings stored with that test date: each is in exactly one of the two
\* answers, in the pending one exactly when its result is pending, and no
\* booking of another date is in either.
C7_PendingCompletedPartition ==
    \A date \in DateTexts :
        LET p == get_pending_learners_response(bookings, date)
            c == get_completed_learners_response(bookings, date)
        IN  IF ParseDate(date) = None
            THEN p.status = 500 /\ c.status = 500
            ELSE /\ p.status = 200 /\ c.status = 200
                 /\ p.bookings \cap c.bookings = {}
                 /\ p.bookings \cup c.bookings = BookingsOn(ParseDate(date))
                 /\ \A i \in BookingsOn(ParseDate(date)) :
                       i \in p.bookings <=> bookings[i].result = "pending"

\* the result of a booking was updated, it is passed, and the booking is in
\* completed-for-date of its date only, next to a pending booking of that date
C7_Witness ==
    /\ last = [op |-> "update_test_result", res |-> Ok]
    /\ \E i, j \in DOMAIN bookings :
          /\ bookings[i].result = "passed"
          /\ bookings[j].result = "pending"
          /\ bookings[i].test_date = "2024-05-01"
          /\ bookings[j].test_date = "2024-05-01"
          /\ i \in get_completed_learners_response(bookings, "2024-5-1").bookings
          /\ i \notin get_pending_learners_response(bookings, "2024-5-1").bookings
          /\ j \in get_pending_learners_response(bookings, "2024-5-1").bookings

RECURSIVE SumOver(_, _)
SumOver(f, keys) ==
    IF keys = {} THEN 0
    ELSE LET k == CHOOSE x \in keys : TRUE IN f[k] + SumOver(f, keys \ {k})

\* C8: for every date, results-by-date puts every booking of that date in
\* the bucket named by its stored result and in no other, each count is the
\* size of its bucket, and the total is the number of bookings of the date,
\* which is the sum of the four counts.
C8_ResultsByDateBreakdown ==
    \A date \in DateTexts :
        LET r == get_all_results_by_date_response(bookings, date)
        IN  ParseDate(date) # None =>
                /\ DOMAIN r.results = {"pending", "passed", "failed", "absent"}
                /\ \A i \in BookingsOn(ParseDate(date)) :
                      \A k \in DOMAIN r.results :
                          i \in r.results[k] <=> bookings[i].result = k
                /\ \A k \in DOMAIN r.results :
                      /\ r.results[k] \subseteq BookingsOn(ParseDate(date))
                      /\ r.summary[k] = Cardinality(r.results[k])
                /\ r.total_bookings = Cardinality(BookingsOn(ParseDate(date)))
                /\ r.total_bookings = SumOver(r.summary, DOMAIN r.summary)

\* two bookings of one date, one absent and one failed, and one of another date
C8_Witness ==
    /\ \E i, j \in DOMAIN bookings :
          /\ bookings[i].test_date = "2024-05-01"
          /\ bookings[j].test_date = "2024-05-02"
          /\ bookings[i].result = "absent"
          /\ bookings[j].result = "failed"
    /\ get_all_results_by_date_response(bookings, "2024-05-01").total_bookings = 1
    /\ get_all_results_by_date_response(bookings, "2024-05-01").summary["absent"] = 1

\* C9: a recordAnswer that commits for a (user, question) pair that has a
\* stored answer is rejected by the unique constraint and leaves the answers
\* as they are, also when the other answer was committed while this request
\* was in flight; for a pair without an answer, of a stored user and a
\* question of the catalog, it stores the hash of the answer and succeeds;
\* so no pair ever has two answers.
C9_OneAnswerPerQuestion ==
    [][/\ \A i, j \in DOMAIN answers' :
             (answers'[i].user_id = answers'[j].user_id
                /\ answers'[i].question_id = answers'[j].question_id) => i = j
       /\ \A t \in InFlight("create_security_answer_commit") :
             create_security_answer_commit(t) =>
                LET stored == \E i \in DOMAIN answers :
                                 /\ answers[i].user_id = t.db_answer.user_id
                                 /\ answers[i].question_id = t.db_answer.question_id
                IN  /\ stored =>
                          /\ answers' = answers
                          /\ last'.res = Unhandled("IntegrityError unique_question_per_user")
                    /\ (~stored /\ t.db_answer.user_id \in DOMAIN users
                          /\ t.db_answer.question_id \in DOMAIN questions) =>
                          /\ last'.res = Ok
                          /\ answers' = Append(answers, t.db_answer)
                          /\ \E r \in AnswerReqs :
                                /\ r.user_id = t.db_answer.user_id
                                /\ r.question_id = t.db_answer.question_id
                                /\ verify_password(r.answer, t.db_answer.answer_hash)
                                /\ t.db_answer.answer_hash.digest # r.answer
      ]_vars

\* a user has answers to two questions, and a request for one of these pairs
\* was rejected by the constraint while another request is still in flight
C9_Witness ==
    /\ last.op = "create_security_answer"
    /\ last.res = Unhandled("IntegrityError unique_question_per_user")
    /\ \E i, j \in DOMAIN answers :
          /\ answers[i].user_id = answers[j].user_id
          /\ answers[i].question_id # answers[j].question_id
    /\ InFlight("create_security_answer_commit") # {}

\* C10: the catalog never holds two entries with the same question text,
\* however the seeding runs are repeated or interleaved.
C10_NoDuplicateQuestion ==
    \A i, j \in DOMAIN questions : questions[i] = questions[j] => i = j

\* C11: after every step of the profile and station operations each stored
\* instructor profile names a stored station and a stored user profile and
\* no two instructor profiles share an instructor number; the INSERT of a
\* second profile for a user, or of a profile whose station is gone, is
\* rejected and stores nothing; and a create request whose station is not
\* stored when the handler looks it up is answered 404 and stores nothing.
C11_InstructorProfilesConsistent ==
    [][/\ \A u \in DOMAIN instructorProfiles' :
             /\ instructorProfiles'[u].station_id \in DOMAIN stations'
             /\ u \in DOMAIN userProfiles'
       /\ \A u, v \in DOMAIN instructorProfiles' :
             instructorProfiles'[u].inf_nr = instructorProfiles'[v].inf_nr => u = v
       /\ \A t \in InFlight("create_instructor_profile_station") :
             (create_instructor_profile_station(t)
                /\ t.profile.station_id \notin DOMAIN stations)
                 => /\ last'.res.status = 404
                    /\ UNCHANGED <<profileVars, stationVars>>
                    /\ InFlight("create_instructor_profile_by_user")' \subseteq
                          InFlight("create_instructor_profile_by_user")
       /\ \A t \in InFlight("create_instructor_profile_commit") :
             (create_instructor_profile_commit(t)
                /\ (t.profile.station_id \notin DOMAIN stations
                      \/ t.profile.user_id \in DOMAIN instructorProfiles))
                 => /\ last'.res.status # 200
                    /\ UNCHANGED <<profileVars, stationVars>>
      ]_vars

\* an instructor profile is stored and a request that names a station that
\* is not stored was answered 404
C11_Witness ==
    /\ last.op = "create_instructor_profile"
    /\ last.res = HTTPException(404, "Selected station does not exist")
    /\ DOMAIN instructorProfiles # {}

\* C12: a booking that createBooking stores gets the next value of the
\* sequence as its id, greater than the id of every stored booking, whatever
\* the request carries; and updateBooking leaves the ids of the stored
\* bookings as they are.
C12_BookingIdsSystemAssigned ==
    [][/\ \A fields \in BookingIdCreateReqs :
             (create_test_booking(fields) /\ last'.res = Ok)
                 => /\ DOMAIN bookings' = DOMAIN bookings \cup {bookingSeq'}
                    /\ bookingSeq' > bookingSeq
                    /\ \A id \in DOMAIN bookings : id < bookingSeq'
       /\ \A t \in InFlight("update_test_booking_commit") :
             update_test_booking_commit(t) => DOMAIN bookings' = DOMAIN bookings
      ]_vars

\* C13: a stored booking leaves the table only in the commit of a
\* deleteBooking request for its id.
C13_RemovedOnlyByDeleteBooking ==
    [][\A id \in DOMAIN bookings :
          id \notin DOMAIN bookings'
              => \E t \in InFlight("delete_test_booking_commit") :
                    t.id = id /\ delete_test_booking_commit(t)
      ]_vars

\* the tables
Stored == <<users, profileVars, stationVars, bookingVars, answers, questions>>

\* C14: get-by-id, updateResult, updateBooking and deleteBooking for a
\* booking id that is not stored answer 404 "Booking not found", start no
\* transaction and leave every table as it is; and a commit of one of them
\* whose booking was removed in between changes no table either.
C14_MissingBookingNotFound ==
    [][/\ \A id \in 1..MaxBookingId :
             id \notin DOMAIN bookings =>
                /\ get_test_booking_response(bookings, id) = BookingNotFound
                /\ \A result \in Results :
                      update_test_result_load(id, result)
                          => /\ last' = [op |-> "update_test_result", res |-> BookingNotFound]
                             /\ UNCHANGED <<Stored, inflight>>
                /\ \A fields \in BookingUpdateReqs :
                      update_test_booking_load(id, fields)
                          => /\ last' = [op |-> "update_test_booking", res |-> BookingNotFound]
                             /\ UNCHANGED <<Stored, inflight>>
                /\ delete_test_booking_load(id)
                          => /\ last' = [op |-> "delete_test_booking", res |-> BookingNotFound]
                             /\ UNCHANGED <<Stored, inflight>>
       /\ \A t \in BagToSet(inflight) :
             (t.id \notin DOMAIN bookings
                /\ \/ update_test_result_commit(t)
                   \/ update_test_booking_commit(t)
                   \/ delete_test_booking_commit(t))
                 => UNCHANGED Stored
      ]_vars

\* booking 2 is stored, booking 1 is not, and an updateResult for booking 1
\* was answered 404
C14_Witness ==
    /\ last = [op |-> "update_test_result", res |-> BookingNotFound]
    /\ DOMAIN bookings = {2}

C16_DeactivatedUntilSetActive ==
    [][/\ \A i \in DOMAIN users :
             (~users[i].is_active /\ users'[i].is_active)
                 => \E t \in InFlight("update_user_is_active_commit") :
                       t.id = i /\ t.is_active /\ update_user_is_active_commit(t)
       /\ (last'.op = "login" /\ last'.res.status = 200)
             => users'[UserByUsername(users', last'.req.username)].is_active
      ]_vars

====
